---- MODULE Spec2Model ----
(***************************************************************************)
(* Model of the NLP_Library text-analysis framework: the TextLibrary       *)
(* registry (text_library.py), the preprocessing and metric functions      *)
(* (preprocessor.py) and the edge list handed to the Sankey wrapper        *)
(* (sankey.py).                                                            *)
(*                                                                         *)
(* A text is a sequence of one-character strings.  A Python dict is a      *)
(* sequence of [key, val] records in insertion order; a Counter is a       *)
(* sequence of [word, count] records in first-occurrence order.  A float   *)
(* that the code obtains by a division is kept as the reduced fraction     *)
(* [num, den].                                                             *)
(***************************************************************************)
EXTENDS Integers, Sequences, FiniteSets, TLC

(***************************************************************************)
(* Bounds of the model.                                                    *)
(***************************************************************************)
MaxOps == 3
MaxK == 2

None == "<None>"

(***************************************************************************)
(* Characters.                                                             *)
(***************************************************************************)
ToLower == ("T" :> "t") @@ ("B" :> "b") @@ ("E" :> "e") @@ ("H" :> "h")
UpperChars == DOMAIN ToLower
LowerChars == {"a", "b", "e", "g", "h", "n", "o", "r", "s", "t", "u", "y"}
WordChars == LowerChars \cup UpperChars \cup {"_"}
Whitespace == {" ", "\n", "\t"}
SentenceEnd == {".", "!", "?"}

Lower(c) == IF c \in UpperChars THEN ToLower[c] ELSE c

\* str.lower()
lower(text) == [i \in 1..Len(text) |-> Lower(text[i])]

\* re.sub(r"[^\w\s]", "", text)
StripPunctuation(text) ==
    SelectSeq(text, LAMBDA c : c \in WordChars \cup Whitespace)

\* re.sub(r"[^\w\s.!?]", "", text)
StripPunctuationKeepSentence(text) ==
    SelectSeq(text, LAMBDA c : c \in WordChars \cup Whitespace \cup SentenceEnd)

\* str.split() without arguments: maximal runs of non-whitespace characters
RECURSIVE SplitFrom(_, _, _, _)
SplitFrom(text, i, cur, acc) ==
    IF i > Len(text)
    THEN IF cur = <<>> THEN acc ELSE Append(acc, cur)
    ELSE IF text[i] \in Whitespace
         THEN SplitFrom(text, i + 1, <<>>,
                        IF cur = <<>> THEN acc ELSE Append(acc, cur))
         ELSE SplitFrom(text, i + 1, Append(cur, text[i]), acc)

split(text) == SplitFrom(text, 1, <<>>, <<>>)

\* sep.join(parts)
RECURSIVE join(_, _)
join(sep, parts) ==
    IF parts = <<>> THEN <<>>
    ELSE IF Len(parts) = 1 THEN parts[1]
    ELSE parts[1] \o sep \o join(sep, Tail(parts))

\* str.strip(): drop leading and trailing whitespace
RECURSIVE lstrip(_)
lstrip(text) ==
    IF text = <<>> THEN <<>>
    ELSE IF text[1] \in Whitespace THEN lstrip(Tail(text)) ELSE text

RECURSIVE rstrip(_)
rstrip(text) ==
    IF text = <<>> THEN <<>>
    ELSE IF text[Len(text)] \in Whitespace
         THEN rstrip(SubSeq(text, 1, Len(text) - 1))
         ELSE text

strip(text) == rstrip(lstrip(text))

(***************************************************************************)
(* preprocessor.py                                                         *)
(***************************************************************************)
\* an empty set of stop words is falsy: no filtering
clean_text(text, stop_words, preserve_punctuation) ==
    LET stripped == IF ~preserve_punctuation
                    THEN StripPunctuation(text)
                    ELSE StripPunctuationKeepSentence(text)
        words == split(lower(stripped))
        kept == IF stop_words # {}
                THEN SelectSeq(words, LAMBDA w : w \notin stop_words)
                ELSE words
    IN  join(<<" ">>, kept)

tokenize_text(text) == split(text)

\* Counter(words): counts, keys in first-occurrence order
CounterIndex(c, w) ==
    IF \E i \in DOMAIN c : c[i].word = w
    THEN CHOOSE i \in DOMAIN c : c[i].word = w
    ELSE 0

RECURSIVE CounterFrom(_, _)
CounterFrom(words, c) ==
    IF words = <<>> THEN c
    ELSE LET w == Head(words)
             i == CounterIndex(c, w)
         IN  CounterFrom(Tail(words),
                 IF i = 0
                 THEN Append(c, [word |-> w, count |-> 1])
                 ELSE [c EXCEPT ![i].count = @ + 1])

Counter(words) == CounterFrom(words, <<>>)

\* mutant: every word counted once
compute_word_count_once(text) ==
    LET c == Counter(tokenize_text(text))
    IN  [i \in DOMAIN c |-> [word |-> c[i].word, count |-> 1]]

compute_word_count(text) == Counter(tokenize_text(text))

extract_unique_words(text) ==
    LET words == tokenize_text(text)
    IN  {words[i] : i \in DOMAIN words}

\* Rational arithmetic for the float results
RECURSIVE Gcd(_, _)
Gcd(a, b) == IF b = 0 THEN a ELSE Gcd(b, a % b)

Frac(n, d) == LET g == Gcd(n, d) IN [num |-> n \div g, den |-> d \div g]

RECURSIVE SumRepeats(_)
SumRepeats(c) ==
    IF c = <<>> THEN 0
    ELSE (IF Head(c).count > 1 THEN Head(c).count - 1 ELSE 0)
         + SumRepeats(Tail(c))

\* mutant: the ratio taken over the distinct words
compute_word_repetition_distinct(text) ==
    LET words == split(text)
        word_counts == Counter(words)
        repeated_words == SumRepeats(word_counts)
    IN  IF Len(words) = 0
        THEN [err |-> "ZeroDivisionError", val |-> Frac(0, 1)]
        ELSE [err |-> "none",
              val |-> Frac(repeated_words * 100, Len(word_counts))]

\* repeated_words / len(words) * 100; ZeroDivisionError when there is no word
compute_word_repetition(text) ==
    LET words == split(text)
        word_counts == Counter(words)
        repeated_words == SumRepeats(word_counts)
    IN  IF Len(words) = 0
        THEN [err |-> "ZeroDivisionError", val |-> Frac(0, 1)]
        ELSE [err |-> "none", val |-> Frac(repeated_words * 100, Len(words))]


\* pronouncing.rhymes(word): the words of the phonetic dictionary that share
\* the rhyming part of word, the word itself excluded
RhymeGroups ==
    { { <<"s", "o">>, <<"g", "o">>, <<"n", "o">> },
      { <<"b", "e">>, <<"h", "e">>, <<"t", "h", "e">> } }

rhymes(word) == UNION {g \ {word} : g \in {h \in RhymeGroups : word \in h}}

\* rhyme_count / len(words); ZeroDivisionError when there is no word
compute_rhyme_density(text) ==
    LET words == split(text)
        rhymeSet == UNION {rhymes(lower(words[i])) : i \in DOMAIN words}
        rhyme_count == Cardinality({i \in DOMAIN words : words[i] \in rhymeSet})
    IN  IF Len(words) = 0
        THEN [err |-> "ZeroDivisionError", val |-> Frac(0, 1)]
        ELSE [err |-> "none", val |-> Frac(rhyme_count, Len(words))]

\* TextBlob(text).sentiment: a lexicon-based analyser, here over a lexicon of
\* one word; a text without a word of the lexicon scores 0.0 and 0.0
SentimentLexicon == { <<"g", "o">> }

compute_sentiment(text) ==
    LET words == split(StripPunctuation(text))
        hit == \E i \in DOMAIN words : words[i] \in SentimentLexicon
    IN  [polarity |-> IF hit THEN 1 ELSE 0,
         subjectivity |-> IF hit THEN 1 ELSE 0]

(***************************************************************************)
(* The environment: files on disk and pages on the web.                    *)
(***************************************************************************)
Files ==
    ("hamlet.txt" :> <<"t", "o", " ", "b", "e", " ", "o", "r", " ",
                       "n", "o", "t", " ", "t", "o", " ", "b", "e">>)
 @@ ("the.txt"    :> <<"T", "h", "e", ",", "\n", "t", "h", "e", ".">>)
 @@ ("punct.txt"  :> <<"?", "!", " ", ",">>)
 @@ ("empty.txt"  :> <<>>)

FileNames == DOMAIN Files \cup {"missing.txt"}

StopWordFiles ==
    ("stop_words.txt" :> <<"t", "h", "e", " ", "t", "o", "\n">>)
 @@ ("no_stops.txt"   :> <<>>)

Web ==
    ("http://ok"   :> [status_code |-> 200,
                       divs |-> << [class |-> "lyrics",
                                    strings |-> << <<" ", "s", "o", " ">>,
                                                   <<"g", "o", "!">> >>],
                                   [class |-> "ad",
                                    strings |-> << <<"b", "u", "y">> >>],
                                   [class |-> "lyrics",
                                    strings |-> << <<"n", "o", "\n">> >>] >>])
 @@ ("http://gone" :> [status_code |-> 404,
                       divs |-> << [class |-> "lyrics",
                                    strings |-> << <<"n", "o">> >>] >>])
 @@ ("http://made" :> [status_code |-> 201,
                       divs |-> << [class |-> "lyrics",
                                    strings |-> << <<"g", "o">> >>] >>])
 @@ ("http://bare" :> [status_code |-> 200,
                       divs |-> << [class |-> "ad",
                                    strings |-> << <<"b", "u", "y">> >>] >>])

Urls == DOMAIN Web
DivClasses == {"lyrics"}
CustomUrls == {"http://ok"}
Labels == {"A"}

\* open(filename, "r").read()
load_text(filename) ==
    IF filename \in DOMAIN Files
    THEN [err |-> "none", text |-> Files[filename]]
    ELSE [err |-> "FileNotFoundError", text |-> <<>>]

\* div.get_text(separator="\n")
get_text(div, separator) == join(separator, div.strings)

RECURSIVE MapStripText(_)
MapStripText(divs) ==
    IF divs = <<>> THEN <<>>
    ELSE <<strip(get_text(Head(divs), <<"\n">>))>> \o MapStripText(Tail(divs))

\* text is bound only under status 200: any other status reaches
\* "return text" with the local unbound
load_website(url, div_class) ==
    LET response == Web[url]
        text_divs == SelectSeq(response.divs, LAMBDA d : d.class = div_class)
    IN  IF response.status_code = 200
        THEN [err |-> "none", text |-> join(<<"\n">>, MapStripText(text_divs))]
        ELSE [err |-> "UnboundLocalError", text |-> <<>>]

(***************************************************************************)
(* Python dicts as insertion-ordered sequences of [key, val].              *)
(***************************************************************************)
DictKeys(d) == {d[i].key : i \in DOMAIN d}
DictHas(d, k) == k \in DictKeys(d)
DictGet(d, k) == d[CHOOSE i \in DOMAIN d : d[i].key = k].val
DictSet(d, k, v) ==
    IF DictHas(d, k)
    THEN [i \in DOMAIN d |-> IF d[i].key = k THEN [key |-> k, val |-> v] ELSE d[i]]
    ELSE Append(d, [key |-> k, val |-> v])


(***************************************************************************)
(* text_library.py: the parsers.  A parser returns [err, results]; on an   *)
(* error, results holds the locals computed before the raise, which the    *)
(* caller never sees.                                                      *)
(***************************************************************************)
\* the body shared by default_parser and website_parser after the load
ParseResults(raw_text, stop_words) ==
    LET minimally_cleaned_text == clean_text(raw_text, {}, TRUE)
        fully_cleaned_text == clean_text(raw_text, stop_words, FALSE)
        word_counts == compute_word_count(fully_cleaned_text)
        unique_words == Cardinality(extract_unique_words(fully_cleaned_text))
        r4 == << [key |-> "minimally_cleaned_text", val |-> minimally_cleaned_text],
                 [key |-> "fully_cleaned_text", val |-> fully_cleaned_text],
                 [key |-> "wordcount", val |-> word_counts],
                 [key |-> "unique words", val |-> unique_words] >>
        percent_repeated_words == compute_word_repetition(fully_cleaned_text)
        sentiment == compute_sentiment(minimally_cleaned_text)
        r7 == r4 \o << [key |-> "word_repetition", val |-> percent_repeated_words.val],
                       [key |-> "polarity", val |-> sentiment.polarity],
                       [key |-> "subjectivity", val |-> sentiment.subjectivity] >>
        rhyme_density == compute_rhyme_density(fully_cleaned_text)
    IN  IF percent_repeated_words.err # "none"
        THEN [err |-> percent_repeated_words.err, results |-> r4]
        ELSE IF rhyme_density.err # "none"
        THEN [err |-> rhyme_density.err, results |-> r7]
        ELSE [err |-> "none",
              results |-> Append(r7, [key |-> "rhyme_density",
                                      val |-> rhyme_density.val])]

default_parser(filename, stop_words) ==
    LET raw == load_text(filename)
    IN  IF raw.err # "none"
        THEN [err |-> raw.err, results |-> <<>>]
        ELSE ParseResults(raw.text, stop_words)

website_parser(url, div_class, stop_words) ==
    LET raw == load_website(url, div_class)
    IN  IF raw.err # "none"
        THEN [err |-> raw.err, results |-> <<>>]
        ELSE ParseResults(raw.text, stop_words)

\* parsers a caller may pass to load_text: each returns its own metric set
CustomParsers == {"sentiment_parser", "count_parser"}

custom_parser(parser, url, div_class, stop_words) ==
    LET raw == load_website(url, div_class)
        sentiment == compute_sentiment(clean_text(raw.text, {}, TRUE))
        cleaned == clean_text(raw.text, stop_words, FALSE)
    IN  IF raw.err # "none"
        THEN [err |-> raw.err, results |-> <<>>]
        ELSE IF parser = "sentiment_parser"
        THEN [err |-> "none",
              results |-> << [key |-> "polarity", val |-> sentiment.polarity],
                             [key |-> "subjectivity",
                              val |-> sentiment.subjectivity] >>]
        ELSE [err |-> "none",
              results |-> << [key |-> "wordcount",
                              val |-> compute_word_count(cleaned)],
                             [key |-> "readability",
                              val |-> Len(tokenize_text(cleaned))] >>]

(***************************************************************************)
(* text_library.py: the registry.  data maps each metric name it contains  *)
(* to a dict from label to value.                                          *)
(***************************************************************************)
\* mutant: a plain dict, which raises on a missing key
PlainDictGet(d, k) ==
    IF k \in DOMAIN d
    THEN [err |-> "none", val |-> d[k], data |-> d]
    ELSE [err |-> "KeyError", val |-> <<>>, data |-> d]

\* self.data[k] on a defaultdict(dict): a missing key is inserted with {}
DefaultDictGet(d, k) ==
    IF k \in DOMAIN d
    THEN [err |-> "none", val |-> d[k], data |-> d]
    ELSE [err |-> "none", val |-> <<>>, data |-> d @@ (k :> <<>>)]

\* mutant: a registration that replaces everything stored under the label
RegisterReplacing(d, label, results) ==
    [m \in DOMAIN d \cup DictKeys(results) |->
        IF DictHas(results, m)
        THEN DictSet(IF m \in DOMAIN d THEN d[m] ELSE <<>>, label,
                     DictGet(results, m))
        ELSE SelectSeq(d[m], LAMBDA e : e.key # label)]

\* mutant: the loop over the results stops one entry short
RECURSIVE RegisterButLast(_, _, _)
RegisterButLast(d, label, results) ==
    IF Len(results) <= 1 THEN d
    ELSE LET k == Head(results).key
             v == Head(results).val
             base == IF k \in DOMAIN d THEN d[k] ELSE <<>>
         IN  RegisterButLast((k :> DictSet(base, label, v)) @@ d,
                             label, Tail(results))

\* for k, v in results.items(): self.data[k][label] = v
\* (a lookup that raised would end the loop)
RECURSIVE Register(_, _, _)
Register(d, label, results) ==
    IF results = <<>> THEN d
    ELSE LET k == Head(results).key
             v == Head(results).val
             g == DefaultDictGet(d, k)
         IN  IF g.err # "none" THEN d
             ELSE Register([g.data EXCEPT ![k] = DictSet(g.val, label, v)],
                           label, Tail(results))

\* mutant: metrics stored as they are computed, kept when a later one fails
CommitPartial(d, label, parsed) == Register(d, label, parsed.results)

\* load_text stores the results only when the parser returned
Commit(d, label, parsed) ==
    IF parsed.err # "none" THEN d ELSE Register(d, label, parsed.results)

\* mutant: most_common without its limit
RECURSIVE most_common_all(_, _)
most_common_all(c, k) ==
    IF c = <<>> THEN <<>>
    ELSE LET i == CHOOSE i \in DOMAIN c :
                     /\ \A j \in DOMAIN c : c[j].count <= c[i].count
                     /\ \A j \in 1..(i - 1) : c[j].count < c[i].count
             rest == SubSeq(c, 1, i - 1) \o SubSeq(c, i + 1, Len(c))
         IN  <<c[i]>> \o most_common_all(rest, k)

\* Counter.most_common(k): by count, largest first, ties in insertion order
RECURSIVE most_common(_, _)
most_common(c, k) ==
    IF k <= 0 \/ c = <<>> THEN <<>>
    ELSE LET i == CHOOSE i \in DOMAIN c :
                     /\ \A j \in DOMAIN c : c[j].count <= c[i].count
                     /\ \A j \in 1..(i - 1) : c[j].count < c[i].count
             rest == SubSeq(c, 1, i - 1) \o SubSeq(c, i + 1, Len(c))
         IN  <<c[i]>> \o most_common(rest, k - 1)

RECURSIVE LabelRows(_, _)
LabelRows(label, top) ==
    IF top = <<>> THEN <<>>
    ELSE << [Label |-> label, Word |-> Head(top).word, Count |-> Head(top).count] >>
         \o LabelRows(label, Tail(top))

\* the list comprehension of sankey(): labels outermost, words innermost
RECURSIVE SankeyRows(_, _)
SankeyRows(wordcount, k) ==
    IF wordcount = <<>> THEN <<>>
    ELSE LabelRows(Head(wordcount).key, most_common(Head(wordcount).val, k))
         \o SankeyRows(Tail(wordcount), k)

\* make_sankey(df, "Label", "Word", vals="Count") without stacking columns:
\* one link per row of df, its value the row's count (node names stand for
\* the integer codes of code_mapping)
make_sankey(df) ==
    [i \in DOMAIN df |->
        [source |-> df[i].Label, target |-> df[i].Word, value |-> df[i].Count]]


(***************************************************************************)
(* State.                                                                  *)
(*   data, stop_words  the fields of the TextLibrary object                *)
(*   ops               number of calls made so far                         *)
(*   regs              history: the registrations that returned, in order  *)
(*   last              the latest call: its arguments and what it did      *)
(***************************************************************************)
VARIABLES data, stop_words, ops, regs, last

vars == <<data, stop_words, ops, regs, last>>

NoCall ==
    [op |-> "__init__", filename |-> None, url |-> None, div_class |-> None,
     label |-> None, parser |-> None, key |-> None, k |-> 0, err |-> "none",
     loaded |-> FALSE, raw |-> <<>>, results |-> <<>>, reads |-> <<>>,
     link |-> <<>>]

\* TextLibrary.__init__
Init ==
    /\ data = <<>>
    /\ stop_words = {}
    /\ ops = 0
    /\ regs = <<>>
    /\ last = NoCall

\* mutant: loading stop words starts a fresh registry
load_stop_words_reset(stopwords_file) ==
    /\ ops < MaxOps
    /\ stop_words' = LET content == StopWordFiles[stopwords_file]
                         words == split(content)
                     IN  {words[i] : i \in DOMAIN words}
    /\ ops' = ops + 1
    /\ last' = [NoCall EXCEPT !.op = "load_stop_words",
                              !.filename = stopwords_file]
    /\ data' = <<>>
    /\ UNCHANGED regs

\* TextLibrary.load_stop_words
load_stop_words(stopwords_file) ==
    /\ ops < MaxOps
    /\ stop_words' = LET content == StopWordFiles[stopwords_file]
                         words == split(content)
                     IN  {words[i] : i \in DOMAIN words}
    /\ ops' = ops + 1
    /\ last' = [NoCall EXCEPT !.op = "load_stop_words",
                              !.filename = stopwords_file]
    /\ UNCHANGED <<data, regs>>

\* TextLibrary.load_text(filename, url, div_class, label, parser)
TextLibrary_load_text(filename, url, div_class, label, parser) ==
    LET raw == IF parser = None THEN load_text(filename)
               ELSE load_website(url, div_class)
        parsed == IF parser = None
                  THEN default_parser(filename, stop_words)
                  ELSE IF parser = "website_parser"
                  THEN website_parser(url, div_class, stop_words)
                  ELSE custom_parser(parser, url, div_class, stop_words)
        key == IF label = None THEN filename ELSE label
    IN  /\ ops < MaxOps
        /\ data' = Commit(data, key, parsed)
        /\ ops' = ops + 1
        /\ regs' = IF parsed.err = "none"
                   THEN Append(regs, [key |-> key,
                                      results |-> parsed.results,
                                      unlabeled |-> (label = None),
                                      source |-> IF parser = None
                                                 THEN filename ELSE url])
                   ELSE regs
        /\ last' = [NoCall EXCEPT !.op = "load_text",
                                  !.filename = filename, !.url = url,
                                  !.div_class = div_class, !.label = label,
                                  !.parser = parser, !.key = key,
                                  !.err = parsed.err,
                                  !.loaded = (raw.err = "none"),
                                  !.raw = raw.text,
                                  !.results = IF parsed.err = "none"
                                              THEN parsed.results ELSE <<>>]
        /\ UNCHANGED stop_words

\* the metric lookups of a presentation call, in order
RECURSIVE ReadMetrics(_, _, _)
ReadMetrics(d, names, reads) ==
    IF names = <<>> THEN [data |-> d, reads |-> reads, err |-> "none"]
    ELSE LET g == DefaultDictGet(d, Head(names))
         IN  IF g.err # "none"
             THEN [data |-> g.data, reads |-> reads, err |-> g.err]
             ELSE ReadMetrics(g.data, Tail(names),
                              Append(reads, [key |-> Head(names), val |-> g.val]))

\* TextLibrary.sankey(k)
sankey(k) ==
    LET r == ReadMetrics(data, <<"wordcount">>, <<>>)
        rows == IF r.err = "none"
                THEN SankeyRows(DictGet(r.reads, "wordcount"), k) ELSE <<>>
    IN  /\ ops < MaxOps
        /\ data' = r.data
        /\ ops' = ops + 1
        /\ last' = [NoCall EXCEPT !.op = "sankey", !.k = k, !.err = r.err,
                                  !.reads = r.reads, !.link = make_sankey(rows)]
        /\ UNCHANGED <<stop_words, regs>>

\* TextLibrary.sentiment_graph: the registry lookups; drawing is outside
sentiment_graph ==
    LET r == ReadMetrics(data, <<"polarity", "polarity", "subjectivity">>, <<>>)
    IN  /\ ops < MaxOps
        /\ data' = r.data
        /\ ops' = ops + 1
        /\ last' = [NoCall EXCEPT !.op = "sentiment_graph", !.err = r.err,
                                  !.reads = r.reads]
        /\ UNCHANGED <<stop_words, regs>>

\* TextLibrary.lyrics_analysis_graph: the registry lookups
lyrics_analysis_graph ==
    LET r == ReadMetrics(data, <<"rhyme_density", "rhyme_density",
                                 "unique words", "word_repetition">>, <<>>)
    IN  /\ ops < MaxOps
        /\ data' = r.data
        /\ ops' = ops + 1
        /\ last' = [NoCall EXCEPT !.op = "lyrics_analysis_graph",
                                  !.err = r.err, !.reads = r.reads]
        /\ UNCHANGED <<stop_words, regs>>

FileRegistration ==
    \E filename \in FileNames, label \in Labels \cup {None} :
        TextLibrary_load_text(filename, None, None, label, None)

WebRegistration ==
    \E url \in Urls, div_class \in DivClasses, label \in Labels \cup {None} :
        TextLibrary_load_text(None, url, div_class, label, "website_parser")

CustomRegistration ==
    \E parser \in CustomParsers, url \in CustomUrls, div_class \in DivClasses,
       label \in Labels \cup {None} :
        TextLibrary_load_text(None, url, div_class, label, parser)

Next ==
    \/ \E f \in DOMAIN StopWordFiles : load_stop_words(f)
    \/ FileRegistration
    \/ WebRegistration
    \/ CustomRegistration
    \/ \E k \in 0..MaxK : sankey(k)
    \/ sentiment_graph
    \/ lyrics_analysis_graph

Spec == Init /\ [][Next]_vars

\* sessions that register documents through the built-in parsers only
NextBuiltin ==
    \/ \E f \in DOMAIN StopWordFiles : load_stop_words(f)
    \/ FileRegistration
    \/ WebRegistration
    \/ \E k \in 0..MaxK : sankey(k)
    \/ sentiment_graph
    \/ lyrics_analysis_graph

SpecBuiltin == Init /\ [][NextBuiltin]_vars


(***************************************************************************)
(* Reading the state.                                                      *)
(***************************************************************************)
Has(d, m, L) == m \in DOMAIN d /\ DictHas(d[m], L)
Val(d, m, L) == DictGet(d[m], L)

PresentationOps == {"sankey", "sentiment_graph", "lyrics_analysis_graph"}

\* a call was made in this step
Called(op) == ops' = ops + 1 /\ last'.op = op

\* metric names some registration has produced so far
Produced == UNION {DictKeys(regs[i].results) : i \in DOMAIN regs}

\* index in regs of the latest registration under label L (0 if none)
LatestReg(rs, L) ==
    IF \E i \in DOMAIN rs : rs[i].key = L
    THEN CHOOSE i \in DOMAIN rs :
             /\ rs[i].key = L
             /\ \A j \in DOMAIN rs : rs[j].key = L => j <= i
    ELSE 0

(***************************************************************************)
(* C1.  When a label L is registered a second time by a parser whose       *)
(* metric set M2 differs from the metric set M1 of the previous            *)
(* registration under L, then right after it data[m][L] is the second      *)
(* value for every m in M2, data[m][L] is still the first registration's   *)
(* value for every m in M1 \ M2, and the entries of every other label are  *)
(* what they were.                                                         *)
(***************************************************************************)
C1_PartialOverwrite ==
    [][ (Called("load_text") /\ last'.err = "none" /\ LatestReg(regs, last'.key) # 0)
        => LET L == last'.key
               first == regs[LatestReg(regs, L)].results
               second == last'.results
               M1 == DictKeys(first)
               M2 == DictKeys(second)
           IN  M1 # M2 =>
                 /\ \A m \in M2 :
                       Has(data', m, L) /\ Val(data', m, L) = DictGet(second, m)
                 /\ \A m \in M1 \ M2 :
                       Has(data', m, L) /\ Val(data', m, L) = DictGet(first, m)
                 /\ \A m \in DOMAIN data' : \A L2 \in DictKeys(data'[m]) \ {L} :
                       Has(data, m, L2) /\ Val(data', m, L2) = Val(data, m, L2)
                 /\ \A m \in DOMAIN data : \A L2 \in DictKeys(data[m]) \ {L} :
                       Has(data', m, L2)
      ]_vars

\* a label registered twice, the second time without a metric of the first,
\* while another label holds data
C1_Witness ==
    /\ last.op = "load_text" /\ last.err = "none"
    /\ Len(regs) >= 2
    /\ regs[Len(regs)].key = regs[Len(regs) - 1].key
    /\ DictKeys(regs[Len(regs) - 1].results) \ DictKeys(regs[Len(regs)].results) # {}
    /\ DictKeys(regs[Len(regs)].results) \ DictKeys(regs[Len(regs) - 1].results) # {}


(***************************************************************************)
(* C2.  A presentation call never fails on a metric lookup, and every      *)
(* lookup of a metric name that no registration has produced returns the   *)
(* empty mapping; this holds from the empty registry on.                   *)
(***************************************************************************)
C2_MissingMetricIsEmpty ==
    last.op \in PresentationOps =>
        /\ last.err = "none"
        /\ last.reads # <<>>
        /\ \A i \in DOMAIN last.reads :
              last.reads[i].key \notin Produced => last.reads[i].val = <<>>

\* a lookup of a never-produced metric in a registry that holds documents
C2_Witness ==
    /\ last.op \in PresentationOps
    /\ regs # <<>>
    /\ \E i \in DOMAIN last.reads :
          last.reads[i].key \notin Produced /\ last.reads[i].val = <<>>

(***************************************************************************)
(* C3.  A presentation call (sankey, sentiment_graph,                      *)
(* lyrics_analysis_graph) leaves the registry exactly as it was, the set   *)
(* of metric names it contains included.                                   *)
(***************************************************************************)
C3_LookupIsReadOnly ==
    [][ (ops' = ops + 1 /\ last'.op \in PresentationOps) => data' = data ]_vars

(***************************************************************************)
(* C4.  Once a (metric name, label) pair holds a value it holds one in     *)
(* every later state, and the value changes only in a load_text call that  *)
(* returned, was stored under that label and supplied that metric.         *)
(***************************************************************************)
C4_NeverLosesData ==
    [][ \A m \in DOMAIN data : \A L \in DictKeys(data[m]) :
          /\ Has(data', m, L)
          /\ Val(data', m, L) # Val(data, m, L) =>
                /\ Called("load_text")
                /\ last'.err = "none"
                /\ last'.key = L
                /\ DictHas(last'.results, m)
      ]_vars

\* a stored value was overwritten by a later registration and the registry
\* was read or the stop words reloaded afterwards
C4_Witness ==
    /\ last.op \in PresentationOps \cup {"load_stop_words"}
    /\ Len(regs) = 2
    /\ regs[1].key = regs[2].key
    /\ \E m \in DictKeys(regs[1].results) \cap DictKeys(regs[2].results) :
          /\ DictGet(regs[1].results, m) # DictGet(regs[2].results, m)
          /\ Val(data, m, regs[1].key) = DictGet(regs[2].results, m)


(***************************************************************************)
(* C5.  Registering label "A" through the default parser, no stop words    *)
(* loaded, with the file text "to be or not to be".                        *)
(***************************************************************************)
W_to == <<"t", "o">>
W_be == <<"b", "e">>
W_or == <<"o", "r">>
W_not == <<"n", "o", "t">>

ToBeOrNotToBe == join(<<" ">>, <<W_to, W_be, W_or, W_not, W_to, W_be>>)

HamletAsA ==
    /\ last.op = "load_text"
    /\ last.parser = None
    /\ last.label = "A"
    /\ load_text(last.filename).text = ToBeOrNotToBe
    /\ stop_words = {}

CounterItems(c) == {c[i] : i \in DOMAIN c}

HamletCounts ==
    /\ last.err = "none"
    /\ Has(data, "wordcount", "A")
    /\ CounterItems(Val(data, "wordcount", "A"))
         = { [word |-> W_to, count |-> 2], [word |-> W_be, count |-> 2],
             [word |-> W_or, count |-> 1], [word |-> W_not, count |-> 1] }
    /\ Has(data, "unique words", "A")
    /\ Val(data, "unique words", "A") = 4
    /\ Has(data, "word_repetition", "A")

\* C5 as stated: the call stores wordcount {to:2, be:2, or:1, not:1},
\* unique words = 4 and word repetition ratio = 50.0 under "A"
C5_AsStated ==
    HamletAsA =>
        /\ HamletCounts
        /\ Val(data, "word_repetition", "A") = [num |-> 50, den |-> 1]

\* C5 amended: the call stores wordcount {to:2, be:2, or:1, not:1},
\* unique words = 4 and word repetition ratio = 2/6*100 = 100/3 under "A"
C5_Amended ==
    HamletAsA =>
        /\ HamletCounts
        /\ Val(data, "word_repetition", "A") = [num |-> 100, den |-> 3]

C5_Witness == HamletAsA /\ last.err = "none" /\ last.raw = ToBeOrNotToBe

(***************************************************************************)
(* C6.  A load_text call without a label registers the document under its  *)
(* source: the filename for the default parser, the URL for a parser       *)
(* called with a url and no filename; so two unlabeled registrations of    *)
(* different sources are stored under different labels.                    *)
(***************************************************************************)
C6_DefaultLabelIsSource ==
    /\ (last.op = "load_text" /\ last.err = "none" /\ last.label = None) =>
          LET source == IF last.parser = None THEN last.filename ELSE last.url
          IN  \A i \in DOMAIN last.results :
                 Has(data, last.results[i].key, source)
    /\ \A i, j \in DOMAIN regs :
          (regs[i].unlabeled /\ regs[j].unlabeled
             /\ regs[i].source # regs[j].source) => regs[i].key # regs[j].key

(***************************************************************************)
(* C7.  load_website fails with a network error whenever the status of     *)
(* the response is not a success, and on a success it returns the texts    *)
(* of the matching regions joined by newlines.                             *)
(***************************************************************************)
NetworkErrors == {"ConnectionError", "HTTPError", "Timeout"}

IsSuccess(status_code) == status_code \in 200..299

C7_NonSuccessIsNetworkError ==
    (last.op = "load_text" /\ last.parser = "website_parser") =>
        LET response == Web[last.url]
            matching == SelectSeq(response.divs,
                                  LAMBDA d : d.class = last.div_class)
        IN  IF IsSuccess(response.status_code)
            THEN /\ last.loaded
                 /\ last.raw = join(<<"\n">>,
                        [i \in DOMAIN matching |->
                            strip(join(<<"\n">>, matching[i].strings))])
            ELSE ~last.loaded /\ last.err \in NetworkErrors


(***************************************************************************)
(* C8.  The edge list built by sankey(k) from the wordcount mapping has    *)
(* one row per (label, word) pair where the word is among the k most       *)
(* frequent of the label: min(k, number of distinct words) rows per        *)
(* label, so labels * k rows when every label has at least k distinct      *)
(* words; the rows come in label insertion order and each count is >= 1.   *)
(* k is a number of words, 0..MaxK.                                        *)
(***************************************************************************)
Min(a, b) == IF a < b THEN a ELSE b

RECURSIVE ExpectedRowCount(_, _)
ExpectedRowCount(wordcount, k) ==
    IF wordcount = <<>> THEN 0
    ELSE Min(k, Len(Head(wordcount).val))
         + ExpectedRowCount(Tail(wordcount), k)

LabelPos(wordcount, L) == CHOOSE i \in DOMAIN wordcount : wordcount[i].key = L

C8_SankeyRows ==
    (last.op = "sankey" /\ last.err = "none") =>
        LET wordcount == data["wordcount"]
            k == last.k
            link == last.link
        IN  /\ Len(link) = ExpectedRowCount(wordcount, k)
            /\ (\A i \in DOMAIN wordcount : Len(wordcount[i].val) >= k)
                   => Len(link) = Len(wordcount) * k
            /\ \A i \in DOMAIN link :
                  /\ link[i].value >= 1
                  /\ DictHas(wordcount, link[i].source)
                  /\ [word |-> link[i].target, count |-> link[i].value]
                        \in CounterItems(DictGet(wordcount, link[i].source))
            /\ \A i, j \in DOMAIN link :
                  i < j => /\ LabelPos(wordcount, link[i].source)
                                <= LabelPos(wordcount, link[j].source)
                           /\ (link[i].source = link[j].source
                                 => /\ link[i].target # link[j].target
                                    /\ link[i].value >= link[j].value)
            /\ \A i \in DOMAIN link :
                  \A e \in CounterItems(DictGet(wordcount, link[i].source)) :
                      (\A j \in DOMAIN link :
                          link[j].source = link[i].source => link[j].target # e.word)
                      => e.count <= link[i].value

\* two labels, each with more than two distinct words, and k = 2: four rows
C8_Witness ==
    /\ last.op = "sankey" /\ last.k = 2
    /\ Len(data["wordcount"]) = 2
    /\ \A i \in DOMAIN data["wordcount"] : Len(data["wordcount"][i].val) > 2
    /\ Len(last.link) = 4

(***************************************************************************)
(* C9.  For the fully cleaned text of every document that was loaded, the  *)
(* number of unique words is at most the number of tokens, with equality   *)
(* exactly when no token occurs twice, and the counts of the word-count    *)
(* mapping sum to the number of tokens.                                    *)
(***************************************************************************)
RECURSIVE SumCounts(_)
SumCounts(c) == IF c = <<>> THEN 0 ELSE Head(c).count + SumCounts(Tail(c))

LastCleaned == clean_text(last.raw, stop_words, FALSE)

C9_CountsAndUniques ==
    (last.op = "load_text" /\ last.loaded) =>
        LET tokens == tokenize_text(LastCleaned)
            unique == Cardinality(extract_unique_words(LastCleaned))
            NoRepeat == \A i, j \in DOMAIN tokens : i # j => tokens[i] # tokens[j]
        IN  /\ unique <= Len(tokens)
            /\ (unique = Len(tokens)) <=> NoRepeat
            /\ SumCounts(compute_word_count(LastCleaned)) = Len(tokens)
            /\ (last.err = "none" /\ last.parser \in {None, "website_parser"}) =>
                  /\ DictGet(last.results, "unique words") = unique
                  /\ SumCounts(DictGet(last.results, "wordcount")) = Len(tokens)

\* a document with a repeated token and one of its tokens removed as a stop word
C9_Witness ==
    /\ last.op = "load_text" /\ last.err = "none" /\ last.parser = None
    /\ stop_words # {}
    /\ Len(tokenize_text(LastCleaned)) < Len(split(last.raw))
    /\ DictGet(last.results, "unique words") < Len(tokenize_text(LastCleaned))

(***************************************************************************)
(* C10.  A load_text call with a built-in parser on a document whose       *)
(* fully cleaned text has no token fails with ZeroDivisionError and        *)
(* leaves the registry exactly as it was.                                  *)
(***************************************************************************)
C10_EmptyDocumentFails ==
    [][ ( /\ Called("load_text")
          /\ last'.parser \in {None, "website_parser"}
          /\ last'.loaded
          /\ tokenize_text(clean_text(last'.raw, stop_words, FALSE)) = <<>> )
        => /\ last'.err = "ZeroDivisionError"
           /\ data' = data
           /\ regs' = regs
      ]_vars

\* a document made only of stop words, offered to a registry that holds data
C10_Witness ==
    /\ last.op = "load_text" /\ last.err = "ZeroDivisionError"
    /\ stop_words # {}
    /\ tokenize_text(clean_text(last.raw, {}, FALSE)) # <<>>
    /\ tokenize_text(LastCleaned) = <<>>
    /\ regs # <<>>
    /\ \A i \in DOMAIN regs : regs[i].key # last.key


(***************************************************************************)
(* C11.  When documents are registered through the built-in parsers only,  *)
(* whatever load_text calls fail and wherever the stop words are loaded,   *)
(* the mappings of the eight metrics a registration produces hold the same *)
(* labels in the same insertion order (a metric not in the registry holds  *)
(* none), so lyrics_analysis_graph, which zips the labels of rhyme_density *)
(* with the values of the other mappings by position, pairs each label     *)
(* with its own values.                                                    *)
(***************************************************************************)
RegistrationMetrics ==
    {"minimally_cleaned_text", "fully_cleaned_text", "wordcount",
     "unique words", "word_repetition", "polarity", "subjectivity",
     "rhyme_density"}

\* list(self.data[m].keys()), without the insertion a lookup makes
LabelsOf(m) ==
    IF m \in DOMAIN data THEN [i \in DOMAIN data[m] |-> data[m][i].key] ELSE <<>>

C11_NeverRagged ==
    /\ \A m1, m2 \in RegistrationMetrics : LabelsOf(m1) = LabelsOf(m2)
    /\ last.op = "lyrics_analysis_graph" =>
          LET labels == LabelsOf("rhyme_density")
          IN  \A i \in DOMAIN last.reads :
                 /\ Len(last.reads[i].val) = Len(labels)
                 /\ \A j \in DOMAIN labels : last.reads[i].val[j].key = labels[j]

\* two documents registered under two labels and then a load_text that
\* failed on a document without a token
C11_Witness ==
    /\ last.op = "load_text" /\ last.err = "ZeroDivisionError"
    /\ Len(regs) = 2 /\ regs[1].key # regs[2].key
    /\ Len(LabelsOf("rhyme_density")) = 2
    /\ Len(LabelsOf("minimally_cleaned_text")) = 2

====
